---- MODULE Spec2Model ----
(***************************************************************************)
(* libdlo: screen mode handling of a DisplayLink device (src/dlo_mode.c,   *)
(* src/dlo_structs.h).                                                     *)
(*                                                                         *)
(* The model covers the command buffer (vbuf, vreg, flush), the mode       *)
(* catalogue and its lookup (get_mode_number), the construction of the     *)
(* supported-mode list from an EDID block (dlo_mode_parse_edid,            *)
(* lookup_edid_modes, add_supported) and the mode-select protocol          *)
(* (dlo_mode_change, mode_select, set_base).                               *)
(*                                                                         *)
(* Conventions.  C arrays are 0-based, TLA+ sequences 1-based: slot i of a *)
(* C array a is a[i + 1].  A 32-bit unsigned value (dlo_ptr_t, uint32_t)   *)
(* is a record [hi, lo] of its two 16-bit halves, because the integers of  *)
(* the model checker are 32-bit signed and cannot hold it.                 *)
(***************************************************************************)
EXTENDS Integers, Sequences, FiniteSets, TLC

(***************************************************************************)
(* Program constants.                                                      *)
(***************************************************************************)

\* Number of catalogue entries (dlo_mode_data[], dev->supported[]).
DLO_MODE_DATA_NUM == 35

\* The reserved mode number: a 32-bit value of a header that is not part of
\* the sources at hand; any value that is no catalogue index behaves alike.
DLO_INVALID_MODE == 2147483647

\* Catalogue indices below this one are the DL160-only modes.
DLO_DL120_MODES == 5

\* Bytes of the 16 bpp plane per pixel.
BYTES_PER_16BPP == 2

\* Size of an EDID block.
EDID_STRUCT_SZ == 128

\* const uint8_t header[8]
header == <<0, 255, 255, 255, 255, 255, 255, 0>>

\* "\xAF\x20\xFF\x00"
WRITE_VIDREG_LOCK == <<175, 32, 255, 0>>

\* "\xAF\x20\xFF\xFF\xAF\xA0"
WRITE_VIDREG_UNLOCK == <<175, 32, 255, 255, 175, 160>>

(***************************************************************************)
(* 32-bit unsigned arithmetic on [hi, lo] halves.                          *)
(***************************************************************************)

U32(h, l) == [hi |-> h, lo |-> l]

\* n is a natural number below 2^31.
U32OfNat(n) == [hi |-> n \div 65536, lo |-> n % 65536]

\* a + b modulo 2^32
U32Add(a, b) ==
  LET l == a.lo + b.lo
  IN  [hi |-> (a.hi + b.hi + (l \div 65536)) % 65536, lo |-> l % 65536]

\* U32Byte1 without the shift.
U32Byte1Low(a) == a.lo % 256

\* (uint8_t)(a >> 16), (uint8_t)(a >> 8), (uint8_t)a
U32Byte2(a) == a.hi % 256
U32Byte1(a) == a.lo \div 256
U32Byte0(a) == a.lo % 256

(***************************************************************************)
(* The mode catalogue, as dlo_mode_init fills it: width, height, refresh,  *)
(* bpp.  low_blank is false in every entry.  The two blobs of an entry are *)
(* opaque and are named by the entry's index.                              *)
(***************************************************************************)

dlo_mode_data ==
  << <<1920, 1080, 60, 24>>, <<1600, 1200, 60, 24>>, <<1400, 1050, 85, 24>>,
     <<1400, 1050, 75, 24>>, <<1400, 1050, 60, 24>>, <<1400, 1050, 60, 24>>,
     <<1366, 768, 60, 24>>,  <<1360, 768, 60, 24>>,  <<1280, 960, 85, 24>>,
     <<1280, 960, 60, 24>>,  <<1280, 800, 60, 24>>,  <<1280, 768, 85, 24>>,
     <<1280, 768, 75, 24>>,  <<1280, 1024, 85, 24>>, <<1280, 1024, 75, 24>>,
     <<1280, 1024, 60, 24>>, <<1280, 768, 60, 24>>,  <<1152, 864, 75, 24>>,
     <<1024, 768, 85, 24>>,  <<1024, 768, 75, 24>>,  <<1024, 768, 70, 24>>,
     <<1024, 768, 60, 24>>,  <<848, 480, 60, 24>>,   <<800, 600, 85, 24>>,
     <<800, 600, 75, 24>>,   <<800, 600, 72, 24>>,   <<800, 600, 60, 24>>,
     <<800, 600, 56, 24>>,   <<800, 480, 60, 24>>,   <<720, 400, 85, 24>>,
     <<720, 400, 70, 24>>,   <<640, 480, 85, 24>>,   <<640, 480, 75, 24>>,
     <<640, 480, 73, 24>>,   <<640, 480, 60, 24>> >>

ModeWidth(num)    == dlo_mode_data[num + 1][1]
ModeHeight(num)   == dlo_mode_data[num + 1][2]
ModeRefresh(num)  == dlo_mode_data[num + 1][3]
ModeBpp(num)      == dlo_mode_data[num + 1][4]
ModeLowBlank(num) == FALSE

\* Mode information of the 24 bits of the EDID established timings.
est_timings ==
  << <<800, 600, 60>>,   <<800, 600, 56>>,  <<640, 480, 75>>,  <<640, 480, 72>>,
     <<640, 480, 67>>,   <<640, 480, 60>>,  <<720, 400, 88>>,  <<720, 400, 70>>,
     <<1280, 1024, 75>>, <<1024, 768, 75>>, <<1024, 768, 70>>, <<1024, 768, 60>>,
     <<1024, 768, 87>>,  <<832, 624, 75>>,  <<800, 600, 75>>,  <<800, 600, 72>>,
     <<0, 0, 0>>,        <<0, 0, 0>>,       <<0, 0, 0>>,       <<0, 0, 0>>,
     <<0, 0, 0>>,        <<0, 0, 0>>,       <<0, 0, 0>>,       <<1152, 870, 75>> >>

(***************************************************************************)
(* Mode lookup.                                                            *)
(***************************************************************************)

\* ModeSlot that ends the walk at the first entry of the width asked for
\* when that entry does not match.
ModeSlotBreak(sup, idx, width, height, refresh, bpp) ==
  LET num == sup[idx + 1]
  IN  IF num = DLO_INVALID_MODE THEN [done |-> TRUE, num |-> DLO_INVALID_MODE]
      ELSE IF ModeWidth(num) # width THEN [done |-> FALSE, num |-> num]
      ELSE IF \/ bpp # 0 /\ ModeBpp(num) # bpp
              \/ height # 0 /\ ModeHeight(num) # height
              \/ refresh # 0 /\ ModeRefresh(num) # refresh
      THEN [done |-> TRUE, num |-> DLO_INVALID_MODE]
      ELSE [done |-> TRUE, num |-> num]

\* ModeSlot without the test of the height.
ModeSlotNoHeight(sup, idx, width, height, refresh, bpp) ==
  LET num == sup[idx + 1]
  IN  IF num = DLO_INVALID_MODE THEN [done |-> TRUE, num |-> DLO_INVALID_MODE]
      ELSE IF ModeWidth(num) # width THEN [done |-> FALSE, num |-> num]
      ELSE IF bpp # 0 /\ ModeBpp(num) # bpp THEN [done |-> FALSE, num |-> num]
      ELSE IF refresh # 0 /\ ModeRefresh(num) # refresh THEN [done |-> FALSE, num |-> num]
      ELSE [done |-> TRUE, num |-> num]

\* One pass of the loop body of get_mode_number, for slot idx: done with
\* the number to return (the break at the sentinel, or the match), or not
\* done (a continue).
ModeSlot(sup, idx, width, height, refresh, bpp) ==
  LET num == sup[idx + 1]
  IN  IF num = DLO_INVALID_MODE THEN [done |-> TRUE, num |-> DLO_INVALID_MODE]
      ELSE IF ModeWidth(num) # width THEN [done |-> FALSE, num |-> num]
      ELSE IF bpp # 0 /\ ModeBpp(num) # bpp THEN [done |-> FALSE, num |-> num]
      ELSE IF height # 0 /\ ModeHeight(num) # height THEN [done |-> FALSE, num |-> num]
      ELSE IF refresh # 0 /\ ModeRefresh(num) # refresh THEN [done |-> FALSE, num |-> num]
      ELSE [done |-> TRUE, num |-> num]

\* The passes for slots lo .. hi - 1 in order, up to the first that is done
\* (the range is halved to keep the evaluation shallow).
RECURSIVE ModeSlots(_, _, _, _, _, _, _)
ModeSlots(sup, lo, hi, width, height, refresh, bpp) ==
  IF hi - lo = 1 THEN ModeSlot(sup, lo, width, height, refresh, bpp)
  ELSE LET mid  == (lo + hi) \div 2
           left == ModeSlots(sup, lo, mid, width, height, refresh, bpp)
       IN  IF left.done THEN left
           ELSE ModeSlots(sup, mid, hi, width, height, refresh, bpp)

\* for (idx = 0; idx < DLO_MODE_DATA_NUM; idx++) ...; return DLO_INVALID_MODE
get_mode_number(sup, width, height, refresh, bpp) ==
  LET r == ModeSlots(sup, 0, DLO_MODE_DATA_NUM, width, height, refresh, bpp)
  IN  IF r.done THEN r.num ELSE DLO_INVALID_MODE

\* dlo_mode_lookup that hands a depth of 0 on to the internal lookup.
dlo_mode_lookupZeroBpp(sup, width, height, refresh, bpp) ==
  IF bpp # 24 /\ bpp # 0 THEN DLO_INVALID_MODE
  ELSE get_mode_number(sup, width, height, refresh, bpp)

dlo_mode_lookup(sup, width, height, refresh, bpp) ==
  IF bpp # 24 THEN DLO_INVALID_MODE
  ELSE get_mode_number(sup, width, height, refresh, bpp)

\* The supported list use_default_modes writes: supported[i] = i.
DefaultModes == [i \in 1..DLO_MODE_DATA_NUM |-> i - 1]

(***************************************************************************)
(* EDID parsing.  ptr is the block, a sequence of EDID_STRUCT_SZ bytes.    *)
(***************************************************************************)

\* RD_B(ptr + off)
RD_B(ptr, off) == ptr[off + 1]

\* The sum of ptr[lo .. hi - 1] (the range is halved to keep the
\* evaluation shallow).
RECURSIVE SumBytes(_, _, _)
SumBytes(ptr, lo, hi) ==
  IF hi <= lo THEN 0
  ELSE IF hi - lo = 1 THEN RD_B(ptr, lo)
  ELSE SumBytes(ptr, lo, (lo + hi) \div 2) + SumBytes(ptr, (lo + hi) \div 2, hi)

\* uint8_t csum: the sum of the bytes is kept modulo 256.
\* bad_edid_checksum that leaves the last byte out of the sum.
bad_edid_checksumShort(ptr, size) == 0 # SumBytes(ptr, 0, size - 1) % 256

bad_edid_checksum(ptr, size) == 0 # SumBytes(ptr, 0, size) % 256

\* The elements of edid.std_timings.timing_id, each a uint16_t.
STD_TIMING_IDS == 8

\* sizeof(edid.std_timings.timing_id), in bytes.
SizeofTimingId == 2 * STD_TIMING_IDS

\* The static edid_format_t before the first parse (zero-initialised): the
\* colour characteristics, the established timings, the standard timings
\* and the four timing descriptions, of which the fields lookup_edid_modes
\* reads are kept.
EdidInit ==
  [ colours     |-> [red_grn_low |-> 0, blu_wht_low |-> 0,
                     red_x |-> 0, red_y |-> 0, grn_x |-> 0, grn_y |-> 0,
                     blu_x |-> 0, blu_y |-> 0, wht_x |-> 0, wht_y |-> 0],
    est_timings |-> [timings0 |-> 0, timings1 |-> 0, resvd |-> 0],
    std_timings |-> [timing_id |-> [k \in 1..STD_TIMING_IDS |-> 0]],
    timings     |-> [i \in 1..4 |-> [is_detail |-> FALSE, hactl |-> 0,
                                     hactblankh |-> 0, vactl |-> 0,
                                     vactblankh |-> 0]] ]

\* parse_edid_colours(cols, ptr + off): the ten raw bytes are read at
\* 0x19 .. 0x22 from the pointer it is given, then expanded in place, each
\* statement reading the fields as the statements before it left them.
parse_edid_colours(ptr, off) ==
  LET red_grn_low == RD_B(ptr, off + 25)
      blu_wht_low == RD_B(ptr, off + 26)
      red_x == RD_B(ptr, off + 27)
      red_y == RD_B(ptr, off + 28)
      grn_x == RD_B(ptr, off + 29)
      grn_y == RD_B(ptr, off + 30)
      blu_x == RD_B(ptr, off + 31)
      blu_y == RD_B(ptr, off + 32)
      wht_y == RD_B(ptr, off + 34)
  IN  [red_grn_low |-> red_grn_low,
       blu_wht_low |-> blu_wht_low,
       red_x |-> (red_grn_low \div 64) + (red_x * 4),
       red_y |-> ((red_grn_low \div 16) % 4) + (red_y * 4),
       grn_x |-> ((red_grn_low \div 4) % 4) + (grn_x * 4),
       grn_y |-> (red_grn_low % 4) + (grn_y * 4),
       blu_x |-> (blu_wht_low \div 64) + (blu_x * 4),
       blu_y |-> (((blu_wht_low \div 64) % 2) * 4) + (blu_y * 4),
       wht_x |-> ((blu_wht_low \div 4) % 4) + (wht_y * 4),
       wht_y |-> (blu_wht_low % 4) + (wht_y * 4)]

\* What the stores to timing_id[8 .. 15], past the end of the array, do:
\* nothing that is seen again ("apart"), or they land in the bytes that
\* follow the array in edid_format_t, the start of timings[0]
\* ("adjacent": timing_id[8] over is_detail, timing_id[12] and [13] over
\* the two halves of hactl).
StdOverruns == {"apart", "adjacent"}

\* for (i = 0; i < sizeof(edid.std_timings.timing_id); i++)
\*   edid.std_timings.timing_id[i] = RD_B(ptr + 0x26 + i)
\* The indices the loop stores to.
StdLoopIndices == 0..(SizeofTimingId - 1)

\* The record after the loop: element i holds the single byte at
\* 0x26 + i; lay is the outcome of the stores past the array.
StdLoop(edid, ptr, lay) ==
  [edid EXCEPT
     !.std_timings.timing_id =
        [k \in 1..STD_TIMING_IDS |-> RD_B(ptr, 38 + (k - 1))],
     !.timings[1] =
        IF lay = "adjacent"
        THEN [@ EXCEPT !.is_detail = (RD_B(ptr, 38 + 8) # 0),
                       !.hactl = RD_B(ptr, 38 + 12)
                                   + (65536 * RD_B(ptr, 38 + 13))]
        ELSE @]

\* One 18-byte descriptor at ptr + off.  A monitor descriptor only clears
\* is_detail: the other fields of the union keep what they held.
parse_edid_detail_desc(desc, ptr, off) ==
  IF RD_B(ptr, off) # 0 \/ RD_B(ptr, off + 1) # 0 \/ RD_B(ptr, off + 2) # 0
  THEN [is_detail  |-> TRUE,
        hactl      |-> RD_B(ptr, off + 2),
        hactblankh |-> RD_B(ptr, off + 4),
        vactl      |-> RD_B(ptr, off + 5),
        vactblankh |-> RD_B(ptr, off + 7)]
  ELSE [desc EXCEPT !.is_detail = FALSE]

\* The fields dlo_mode_parse_edid stores once header and checksum passed.
ParseFields(edid, ptr, lay) ==
  LET s == StdLoop(edid, ptr, lay)
  IN  [ colours     |-> parse_edid_colours(ptr, 25),
        est_timings |-> [timings0 |-> RD_B(ptr, 35),
                         timings1 |-> RD_B(ptr, 36),
                         resvd    |-> RD_B(ptr, 37)],
        std_timings |-> s.std_timings,
        timings     |-> [i \in 1..4 |->
                           parse_edid_detail_desc(s.timings[i], ptr,
                                                  54 + ((i - 1) * 18))] ]

(***************************************************************************)
(* The supported list built from a parsed EDID.  The walk carries          *)
(* st = [sup, idx, native, oob, added]: the device's supported array, the   *)
(* local idx, the device's native mode, whether a store went past the      *)
(* array, and (set at the end) how many entries were appended.             *)
(***************************************************************************)

NoBase == U32(0, 0)

\* dlo_memset(&dev->native, 0, sizeof(dlo_mode_t))
NativeCleared ==
  [width |-> 0, height |-> 0, bpp |-> 0, base |-> NoBase, refresh |-> 0]

\* The mode record of catalogue entry num, as lookup_edid_modes stores it.
NativeOf(num) ==
  [width |-> ModeWidth(num), height |-> ModeHeight(num), bpp |-> ModeBpp(num),
   base |-> NoBase, refresh |-> ModeRefresh(num)]

\* add_supported: the lookup reads the array the store writes.
add_supported(st, width, height, refresh) ==
  LET num == get_mode_number(st.sup, width, height, refresh, 24)
  IN  IF num # DLO_INVALID_MODE
      THEN IF st.idx < DLO_MODE_DATA_NUM
           THEN [st EXCEPT !.sup[st.idx + 1] = num, !.idx = st.idx + 1]
           ELSE [st EXCEPT !.idx = st.idx + 1, !.oob = TRUE]
      ELSE st

\* The body of for (bit = 0; bit < 24; bit++): the field `timings'
\* assembled from the three established-timing bytes is not consulted.
EstStep(st, bit) ==
  IF est_timings[bit + 1][1] # 0
  THEN add_supported(st, est_timings[bit + 1][1], est_timings[bit + 1][2],
                     est_timings[bit + 1][3])
  ELSE st

\* The bodies for bit = lo .. hi - 1 in order (the range is halved to keep
\* the evaluation shallow).  The walk is followed up to a store past the
\* array, after which what the program does is undefined.
RECURSIVE EstLoop(_, _, _)
EstLoop(st, lo, hi) ==
  IF hi - lo = 1 THEN EstStep(st, lo)
  ELSE LET left == EstLoop(st, lo, (lo + hi) \div 2)
       IN  IF left.oob THEN left ELSE EstLoop(left, (lo + hi) \div 2, hi)

DetailWidth(detail)  == detail.hactl + ((detail.hactblankh \div 16) * 256)
DetailHeight(detail) == detail.vactl + ((detail.vactblankh \div 16) * 256)

\* The body of for (hz = 50; hz < 100; hz++) of one detailed timing.  (A
\* store past the array is recorded in oob; what dev->supported[prev] then
\* reads is not modelled.)
HzStep(st, detail, hz) ==
  LET prev == st.idx
      nx   == add_supported(st, DetailWidth(detail), DetailHeight(detail), hz)
  IN  IF nx.idx # prev /\ ~nx.oob
      THEN [nx EXCEPT !.native = NativeOf(nx.sup[prev + 1])]
      ELSE nx

\* The bodies for hz = lo .. hi - 1 in order, up to a store past the array.
RECURSIVE HzLoop(_, _, _, _)
HzLoop(st, detail, lo, hi) ==
  IF hi - lo = 1 THEN HzStep(st, detail, lo)
  ELSE LET left == HzLoop(st, detail, lo, (lo + hi) \div 2)
       IN  IF left.oob THEN left
           ELSE HzLoop(left, detail, (lo + hi) \div 2, hi)

\* for (timings = 0; timings < 4; timings++)
RECURSIVE DetailLoop(_, _, _)
DetailLoop(st, edid, t) ==
  IF t >= 4 \/ st.oob THEN st
  ELSE IF edid.timings[t + 1].is_detail
       THEN DetailLoop(HzLoop(st, edid.timings[t + 1], 50, 100), edid, t + 1)
       ELSE DetailLoop(st, edid, t + 1)

\* FillLoop that starts one slot early, at the last entry appended.
FillLoopFromPrev(st) ==
  [st EXCEPT !.sup = [i \in 1..DLO_MODE_DATA_NUM |->
                        IF st.idx - 1 < i /\ i < DLO_MODE_DATA_NUM
                        THEN DLO_INVALID_MODE ELSE st.sup[i]],
             !.idx = IF st.idx < DLO_MODE_DATA_NUM - 1
                     THEN DLO_MODE_DATA_NUM - 1 ELSE st.idx,
             !.added = st.idx]

\* FillLoop that fills nothing.
FillLoopNone(st) == [st EXCEPT !.added = st.idx]

\* while (idx < DLO_MODE_DATA_NUM - 1) dev->supported[idx++] = DLO_INVALID_MODE
FillLoop(st) ==
  [st EXCEPT !.sup = [i \in 1..DLO_MODE_DATA_NUM |->
                        IF st.idx < i /\ i < DLO_MODE_DATA_NUM
                        THEN DLO_INVALID_MODE ELSE st.sup[i]],
             !.idx = IF st.idx < DLO_MODE_DATA_NUM - 1
                     THEN DLO_MODE_DATA_NUM - 1 ELSE st.idx,
             !.added = st.idx]

lookup_edid_modes(sup, edid) ==
  FillLoop(DetailLoop(EstLoop([sup |-> sup, idx |-> 0, added |-> 0,
                               native |-> NativeCleared, oob |-> FALSE],
                              0, 24),
                      edid, 0))

\* dlo_mode_parse_edid on a device with supported list sup and native mode
\* nat, the static record holding edid: the return code and what is left.
\* dlo_mode_parse_edid that tests the checksum after it has rebuilt the list.
dlo_mode_parse_edidLateSum(sup, nat, edid, ptr, lay) ==
  IF SubSeq(ptr, 1, 8) # header
  THEN [rc |-> "dlo_err_edid_fail", edid |-> edid, sup |-> sup,
        native |-> nat, oob |-> FALSE, idx |-> 0]
  ELSE LET e  == ParseFields(edid, ptr, lay)
           st == lookup_edid_modes(sup, e)
       IN  [rc |-> IF bad_edid_checksum(ptr, EDID_STRUCT_SZ)
                   THEN "dlo_err_edid_fail" ELSE "dlo_ok",
            edid |-> e, sup |-> st.sup,
            native |-> st.native, oob |-> st.oob, idx |-> st.added]

dlo_mode_parse_edid(sup, nat, edid, ptr, lay) ==
  IF SubSeq(ptr, 1, 8) # header
  THEN [rc |-> "dlo_err_edid_fail", edid |-> edid, sup |-> sup,
        native |-> nat, oob |-> FALSE, idx |-> 0]
  ELSE IF bad_edid_checksum(ptr, EDID_STRUCT_SZ)
  THEN [rc |-> "dlo_err_edid_fail", edid |-> edid, sup |-> sup,
        native |-> nat, oob |-> FALSE, idx |-> 0]
  ELSE LET e  == ParseFields(edid, ptr, lay)
           st == lookup_edid_modes(sup, e)
       IN  [rc |-> "dlo_ok", edid |-> e, sup |-> st.sup,
            native |-> st.native, oob |-> st.oob, idx |-> st.added]

(***************************************************************************)
(* The command buffer.  b is the staged bytes buffer[0 .. bufptr - buffer) *)
(* and cap is bufend - buffer, so bufend - bufptr is cap - Len(b).         *)
(***************************************************************************)

\* while (len--) *(dev->bufptr)++ = *buf++
RECURSIVE CopyLoop(_, _)
CopyLoop(b, bytes) ==
  IF bytes = <<>> THEN b ELSE CopyLoop(Append(b, Head(bytes)), Tail(bytes))

\* vbuf that copies what fits before it reports the full buffer.
vbufPartial(b, cap, bytes) ==
  IF cap - Len(b) < Len(bytes)
  THEN [rc |-> "dlo_err_buf_full",
        buf |-> CopyLoop(b, SubSeq(bytes, 1, cap - Len(b)))]
  ELSE [rc |-> "dlo_ok", buf |-> CopyLoop(b, bytes)]

vbuf(b, cap, bytes) ==
  IF cap - Len(b) < Len(bytes)
  THEN [rc |-> "dlo_err_buf_full", buf |-> b]
  ELSE [rc |-> "dlo_ok", buf |-> CopyLoop(b, bytes)]

\* vreg with the room tested against 3 bytes.
vregOffByOne(b, cap, reg, val) ==
  IF cap - Len(b) < 3
  THEN [rc |-> "dlo_err_buf_full", buf |-> b]
  ELSE [rc |-> "dlo_ok",
        buf |-> Append(Append(Append(Append(b, 175), 32), reg), val)]

vreg(b, cap, reg, val) ==
  IF cap - Len(b) < 4
  THEN [rc |-> "dlo_err_buf_full", buf |-> b]
  ELSE [rc |-> "dlo_ok",
        buf |-> Append(Append(Append(Append(b, 175), 32), reg), val)]

(***************************************************************************)
(* The transport (dlo_usb.c is not among the sources; modelled after the   *)
(* specification's sections 5 and 6).  A call either delivers its bytes or *)
(* fails; ok is the transport's answer.  What was delivered is a sequence  *)
(* of records: the channel, which blob, the catalogue key of a mode blob,  *)
(* and the bytes of a flushed command buffer.                              *)
(***************************************************************************)

NoKey == <<0, 0, 0, 0>>

\* dlo_usb_write: sends the staged bytes; the cursor is reset to the base
\* whether the transfer succeeded or not.  Nothing is sent for no bytes.
dlo_usb_write(b, ok) ==
  [rc   |-> IF ok THEN "dlo_ok" ELSE "dlo_err_usb",
   buf  |-> <<>>,
   sent |-> IF ok /\ b # <<>>
            THEN << [chan |-> "bulk", blob |-> "buffer", key |-> NoKey,
                     bytes |-> b] >>
            ELSE <<>>]

\* dlo_usb_chan_sel(dev, blob, size)
dlo_usb_chan_sel(blob, key, ok) ==
  [rc   |-> IF ok THEN "dlo_ok" ELSE "dlo_err_usb",
   sent |-> IF ok THEN << [chan |-> "control", blob |-> blob, key |-> key,
                           bytes |-> <<>>] >>
            ELSE <<>>]

\* dlo_usb_write_buf(dev, blob, size)
dlo_usb_write_buf(blob, key, ok) ==
  [rc   |-> IF ok THEN "dlo_ok" ELSE "dlo_err_usb",
   sent |-> IF ok THEN << [chan |-> "bulk", blob |-> blob, key |-> key,
                           bytes |-> <<>>] >>
            ELSE <<>>]

(***************************************************************************)
(* Mode select.                                                            *)
(***************************************************************************)

\* set_base: every step is wrapped in ERR(), which returns at once on the
\* first result other than dlo_ok.
set_base(b, cap, base, base8, ok) ==
  LET s1 == vbuf(b, cap, WRITE_VIDREG_LOCK)
      s2 == vreg(s1.buf, cap, 32, U32Byte2(base))
      s3 == vreg(s2.buf, cap, 33, U32Byte1(base))
      s4 == vreg(s3.buf, cap, 34, U32Byte0(base))
      s5 == vreg(s4.buf, cap, 38, U32Byte2(base8))
      s6 == vreg(s5.buf, cap, 39, U32Byte1(base8))
      s7 == vreg(s6.buf, cap, 40, U32Byte0(base8))
      s8 == vbuf(s7.buf, cap, WRITE_VIDREG_UNLOCK)
      f  == dlo_usb_write(s8.buf, ok)
      Stop(s) == [rc |-> s.rc, buf |-> s.buf, sent |-> <<>>]
  IN  IF s1.rc # "dlo_ok" THEN Stop(s1)
      ELSE IF s2.rc # "dlo_ok" THEN Stop(s2)
      ELSE IF s3.rc # "dlo_ok" THEN Stop(s3)
      ELSE IF s4.rc # "dlo_ok" THEN Stop(s4)
      ELSE IF s5.rc # "dlo_ok" THEN Stop(s5)
      ELSE IF s6.rc # "dlo_ok" THEN Stop(s6)
      ELSE IF s7.rc # "dlo_ok" THEN Stop(s7)
      ELSE IF s8.rc # "dlo_ok" THEN Stop(s8)
      ELSE f

\* ModeProgram with the program blob sent before the enable blob.
ModeProgramSwapped(mode, fail) ==
  LET key == dlo_mode_data[mode + 1]
      e   == dlo_usb_chan_sel("mode_en", key, fail # "enable")
      p   == dlo_usb_write_buf("data", key, fail # "program")
      q   == dlo_usb_chan_sel("postamble", NoKey, fail # "postamble")
  IN  IF p.rc # "dlo_ok" THEN p
      ELSE IF e.rc # "dlo_ok" THEN [rc |-> e.rc, sent |-> p.sent \o e.sent]
      ELSE [rc |-> q.rc, sent |-> p.sent \o e.sent \o q.sent]

\* The three transfers of the mode-program sequence of catalogue entry
\* mode; fail names the transport call that fails, if any.
ModeProgram(mode, fail) ==
  LET key == dlo_mode_data[mode + 1]
      e   == dlo_usb_chan_sel("mode_en", key, fail # "enable")
      p   == dlo_usb_write_buf("data", key, fail # "program")
      q   == dlo_usb_chan_sel("postamble", NoKey, fail # "postamble")
  IN  IF e.rc # "dlo_ok" THEN e
      ELSE IF p.rc # "dlo_ok" THEN [rc |-> p.rc, sent |-> e.sent \o p.sent]
      ELSE [rc |-> q.rc, sent |-> e.sent \o p.sent \o q.sent]

\* desc->view.base + (BYTES_PER_16BPP * desc->view.width * desc->view.height),
\* stored in the 32-bit dev->base8.
Base8NoBase(desc) ==
  U32OfNat(BYTES_PER_16BPP * desc.width * desc.height)

Base8Of(desc) ==
  U32Add(desc.base, U32OfNat(BYTES_PER_16BPP * desc.width * desc.height))

\* BadMode without the test of the base address.
BadModeAnyBase(desc, mode) ==
  mode >= DLO_MODE_DATA_NUM \/ mode = DLO_INVALID_MODE

\* The two tests mode_select makes before it touches the device: the mode
\* number is one of the catalogue and the base address is even.
BadMode(desc, mode) ==
  \/ mode >= DLO_MODE_DATA_NUM \/ mode = DLO_INVALID_MODE
  \/ desc.base.lo % 2 = 1

\* Differs without the comparison of the depth.
DiffersNoBpp(desc, cur) ==
  desc.width # cur.width \/ desc.height # cur.height

\* The test that guards the mode-program sequence: the desired raster
\* differs from the current mode in width, height or depth.
Differs(desc, cur) ==
  \/ desc.width  # cur.width
  \/ desc.height # cur.height
  \/ desc.bpp    # cur.bpp

\* SelectResult with the bound one too low.
SelectResultLow(mode) ==
  IF mode < DLO_DL120_MODES - 1 THEN "dlo_warn_dl160_mode" ELSE "dlo_ok"

\* What mode_select returns once every step has succeeded.
SelectResult(mode) ==
  IF mode < DLO_DL120_MODES THEN "dlo_warn_dl160_mode" ELSE "dlo_ok"

\* mode_select that stores the base address before its first flush.
mode_selectStoreFirst(dev, desc, mode, fail) ==
  LET Ret(code, d, sent) ==
        [rc |-> code, mode |-> d.mode, base8 |-> d.base8,
         low_blank |-> d.low_blank, buf |-> d.buf, sent |-> sent]
  IN
  IF BadMode(desc, mode)
  THEN Ret("dlo_err_bad_mode", dev, <<>>)
  ELSE
  LET d0 == [dev EXCEPT !.mode.base = desc.base,
                        !.base8 = Base8Of(desc)]
      f1 == dlo_usb_write(d0.buf, fail # "flush")
      d1 == [d0 EXCEPT !.buf = f1.buf]
  IN
  IF f1.rc # "dlo_ok" THEN Ret("DLO_INVALID_MODE", d1, f1.sent)
  ELSE
  LET d2 == d1
      sb == set_base(d2.buf, d2.cap, d2.mode.base, d2.base8, fail # "set_base")
      d3 == [d2 EXCEPT !.buf = sb.buf]
      s3 == f1.sent \o sb.sent
  IN
  IF sb.rc # "dlo_ok" THEN Ret(sb.rc, d3, s3)
  ELSE
  LET mp == IF Differs(desc, d3.mode) THEN ModeProgram(mode, fail)
                 ELSE [rc |-> "dlo_ok", sent |-> <<>>]
      s4 == s3 \o mp.sent
  IN
  IF mp.rc # "dlo_ok" THEN Ret(mp.rc, d3, s4)
  ELSE
  LET d4 == [d3 EXCEPT !.mode = [desc EXCEPT !.refresh = ModeRefresh(mode)],
                       !.low_blank = ModeLowBlank(mode)]
      f2 == dlo_usb_write(d4.buf, fail # "flush_end")
      d5 == [d4 EXCEPT !.buf = f2.buf]
      s5 == s4 \o f2.sent
  IN
  IF f2.rc # "dlo_ok" THEN Ret(f2.rc, d5, s5)
  ELSE Ret(SelectResult(mode), d5, s5)

\* mode_select that records the new mode before the mode-program sequence.
mode_selectEarlyUpdate(dev, desc, mode, fail) ==
  LET Ret(code, d, sent) ==
        [rc |-> code, mode |-> d.mode, base8 |-> d.base8,
         low_blank |-> d.low_blank, buf |-> d.buf, sent |-> sent]
  IN
  IF BadMode(desc, mode)
  THEN Ret("dlo_err_bad_mode", dev, <<>>)
  ELSE
  LET f1 == dlo_usb_write(dev.buf, fail # "flush")
      d1 == [dev EXCEPT !.buf = f1.buf]
  IN
  IF f1.rc # "dlo_ok" THEN Ret("DLO_INVALID_MODE", d1, f1.sent)
  ELSE
  LET d2 == [d1 EXCEPT !.mode.base = desc.base,
                       !.base8 = Base8Of(desc)]
      sb == set_base(d2.buf, d2.cap, d2.mode.base, d2.base8, fail # "set_base")
      d3 == [d2 EXCEPT !.buf = sb.buf]
      s3 == f1.sent \o sb.sent
  IN
  IF sb.rc # "dlo_ok" THEN Ret(sb.rc, d3, s3)
  ELSE
  LET mp == IF Differs(desc, d3.mode) THEN ModeProgram(mode, fail)
                 ELSE [rc |-> "dlo_ok", sent |-> <<>>]
      s4 == s3 \o mp.sent
      d4 == [d3 EXCEPT !.mode = [desc EXCEPT !.refresh = ModeRefresh(mode)],
                       !.low_blank = ModeLowBlank(mode)]
  IN
  IF mp.rc # "dlo_ok" THEN Ret(mp.rc, d4, s4)
  ELSE
  LET f2 == dlo_usb_write(d4.buf, fail # "flush_end")
      d5 == [d4 EXCEPT !.buf = f2.buf]
      s5 == s4 \o f2.sent
  IN
  IF f2.rc # "dlo_ok" THEN Ret(f2.rc, d5, s5)
  ELSE Ret(SelectResult(mode), d5, s5)

\* dev is [mode, base8, low_blank, buf, cap]; desc is the desired mode
\* [width, height, bpp, base, refresh]; the result is the return code, the
\* device fields as left, and what went over the transport.
mode_select(dev, desc, mode, fail) ==
  LET Ret(code, d, sent) ==
        [rc |-> code, mode |-> d.mode, base8 |-> d.base8,
         low_blank |-> d.low_blank, buf |-> d.buf, sent |-> sent]
  IN
  IF BadMode(desc, mode)
  THEN Ret("dlo_err_bad_mode", dev, <<>>)
  ELSE
  LET f1 == dlo_usb_write(dev.buf, fail # "flush")
      d1 == [dev EXCEPT !.buf = f1.buf]
  IN
  IF f1.rc # "dlo_ok" THEN Ret("DLO_INVALID_MODE", d1, f1.sent)
  ELSE
  LET d2 == [d1 EXCEPT !.mode.base = desc.base,
                       !.base8 = Base8Of(desc)]
      sb == set_base(d2.buf, d2.cap, d2.mode.base, d2.base8, fail # "set_base")
      d3 == [d2 EXCEPT !.buf = sb.buf]
      s3 == f1.sent \o sb.sent
  IN
  IF sb.rc # "dlo_ok" THEN Ret(sb.rc, d3, s3)
  ELSE
  LET mp == IF Differs(desc, d3.mode) THEN ModeProgram(mode, fail)
                 ELSE [rc |-> "dlo_ok", sent |-> <<>>]
      s4 == s3 \o mp.sent
  IN
  IF mp.rc # "dlo_ok" THEN Ret(mp.rc, d3, s4)
  ELSE
  LET d4 == [d3 EXCEPT !.mode = [desc EXCEPT !.refresh = ModeRefresh(mode)],
                       !.low_blank = ModeLowBlank(mode)]
      f2 == dlo_usb_write(d4.buf, fail # "flush_end")
      d5 == [d4 EXCEPT !.buf = f2.buf]
      s5 == s4 \o f2.sent
  IN
  IF f2.rc # "dlo_ok" THEN Ret(f2.rc, d5, s5)
  ELSE Ret(SelectResult(mode), d5, s5)

\* dlo_mode_change on a device whose supported list is sup.
dlo_mode_change(sup, dev, desc, mode, fail) ==
  mode_select(dev, desc,
              IF mode = DLO_INVALID_MODE
              THEN get_mode_number(sup, desc.width, desc.height, 0, desc.bpp)
              ELSE mode,
              fail)

(***************************************************************************)
(* Bounds and inputs of the model.                                         *)
(***************************************************************************)

\* Calls of dlo_mode_parse_edid in one behaviour.
MaxParses == 2

\* No further byte is staged by hand once this many are pending.
MaxPending == 5

\* Capacity of the largest command buffer: the 34 bytes of the
\* base-address group fit.
MaxBuf == 34

\* Capacities: below one register write, below the base-address group, and
\* the largest.
BufSizes == {3, 8, MaxBuf}

\* dev->memory: 16 MB.
DeviceMemory == U32(256, 0)

\* An 18-byte detailed timing description of active geometry w x h.
DetailDesc(w, h) ==
  <<1, 29, w % 256, 0, (w \div 256) * 16, h % 256, 0, (h \div 256) * 16,
    0, 0, 0, 0, 0, 0, 0, 0, 0, 0>>

\* An 18-byte monitor descriptor (a name string).
MonitorDesc == <<0, 0, 0, 252, 0, 65, 10, 32, 32, 32, 32, 32, 32, 32, 32, 32, 32, 32>>

\* A descriptor of geometry g = <<w, h>>; <<0, 0>> asks for a monitor descriptor.
DescOf(g) == IF g = <<0, 0>> THEN MonitorDesc ELSE DetailDesc(g[1], g[2])

\* The ten bytes of colour characteristics (offsets 0x19 .. 0x22) and the
\* sixteen of standard timings (0x26 .. 0x35, four in use) of the blocks.
ColourBytes == <<238, 145, 163, 84, 76, 153, 38, 15, 80, 84>>
StdBytes == <<129, 128, 97, 64, 69, 64, 49, 64, 1, 1, 1, 1, 1, 1, 1, 1>>

\* A 128-byte block: head is its first 8 bytes, est the three established
\* timing bytes, gs the geometries of the four descriptors, and off is added
\* to the byte that would make the checksum right.
EdidBlock(head, est, gs, off) ==
  LET body == head \o [i \in 1..17 |-> 0] \o ColourBytes \o est \o StdBytes
              \o DescOf(gs[1]) \o DescOf(gs[2]) \o DescOf(gs[3]) \o DescOf(gs[4])
              \o <<0>>
  IN  Append(body, (off + 256 - (SumBytes(body, 0, 127) % 256)) % 256)

NoDesc == <<0, 0>>

\* The blocks handed to dlo_mode_parse_edid: established timings alone;
\* every established bit and four detailed timings of 800 x 600; two
\* detailed timings; a wrong header; a wrong checksum; a header wrong in
\* its last byte with a wrong checksum; and one detailed timing of a
\* geometry, in and out of the catalogue.
EdidInputs ==
  { EdidBlock(header, <<32, 0, 0>>, <<NoDesc, NoDesc, NoDesc, NoDesc>>, 0),
    EdidBlock(header, <<255, 255, 128>>,
              <<(<<800, 600>>), <<800, 600>>, <<800, 600>>, <<800, 600>> >>, 0),
    EdidBlock(header, <<0, 0, 0>>,
              <<(<<1280, 1024>>), <<1024, 768>>, NoDesc, NoDesc>>, 0),
    EdidBlock(<<0, 0, 0, 0, 0, 0, 0, 0>>, <<0, 0, 0>>,
              <<NoDesc, NoDesc, NoDesc, NoDesc>>, 0),
    EdidBlock(header, <<0, 0, 0>>, <<NoDesc, NoDesc, NoDesc, NoDesc>>, 1),
    EdidBlock(<<0, 255, 255, 255, 255, 255, 255, 1>>, <<32, 0, 0>>,
              <<(<<1280, 1024>>), NoDesc, NoDesc, NoDesc>>, 1) }
  \cup { EdidBlock(header, <<0, 0, 0>>, <<g, NoDesc, NoDesc, NoDesc>>, 0) :
           g \in { <<1920, 1080>>, <<1280, 1024>>, <<1152, 870>> } }

\* The block of the monitor of a device that has parsed one.
ModeEdidInputs ==
  { EdidBlock(header, <<32, 0, 0>>, <<(<<1280, 1024>>), NoDesc, NoDesc, NoDesc>>, 0) }

\* Arguments of a lookup: width, height, refresh, bpp.
LookupInputs ==
  { <<1024, 768, 60, 24>>, <<1024, 768, 0, 24>>, <<1024, 0, 0, 0>>,
    <<640, 480, 60, 24>>,  <<1920, 1080, 60, 24>>, <<1280, 1024, 0, 24>>,
    <<1024, 768, 60, 16>>, <<1024, 768, 60, 0>>,  <<1152, 870, 75, 24>>,
    <<1024, 600, 0, 24>>,  <<1024, 768, 61, 24>>, <<1280, 0, 85, 24>>,
    <<1024, 768, 75, 24>> }

Mode(w, h, bpp, base, refresh) ==
  [width |-> w, height |-> h, bpp |-> bpp, base |-> base, refresh |-> refresh]

\* Desired modes of a mode change: a catalogue geometry; one at a base
\* address near the top of the 32-bit range; one at an odd base address;
\* one of depth 0; one of a geometry and depth outside the catalogue.
DesiredInputs ==
  { Mode(640, 480, 24, U32(0, 0), 0),
    Mode(1024, 768, 24, U32(65535, 65534), 60),
    Mode(1024, 768, 24, U32(0, 1), 60),
    Mode(640, 480, 0, U32(0, 0), 60),
    Mode(1234, 567, 16, U32(171, 52718), 0) }

\* Mode numbers handed to a mode change: none, a DL160 mode, another
\* mode, and one past the catalogue.
ModeNumInputs == {DLO_INVALID_MODE, 4, 21, DLO_MODE_DATA_NUM}

\* The transport call of a mode change that fails, if any.
FailInputs ==
  {"none", "flush", "set_base", "enable", "program", "postamble", "flush_end"}

\* Bytes staged by hand.
StageInputs == {WRITE_VIDREG_UNLOCK, <<>>}

(***************************************************************************)
(* State.                                                                  *)
(***************************************************************************)

VARIABLES
  supported,   \* dev->supported
  native,      \* dev->native
  mode,        \* dev->mode
  base8,       \* dev->base8
  low_blank,   \* dev->low_blank
  memory,      \* dev->memory
  buf,         \* the staged bytes: buffer[0 .. bufptr - buffer)
  cap,         \* bufend - buffer
  edid,        \* the static edid_format_t of dlo_mode_parse_edid
  nparse,      \* calls of dlo_mode_parse_edid so far
  op,          \* the operation that has just returned, or "idle"
  arg,         \* its arguments
  rc,          \* its return code
  res,         \* the mode number it found or selected
  wire,        \* what it sent over the transport
  oob          \* it stored past the end of dev->supported

vars == <<supported, native, mode, base8, low_blank, memory, buf, cap, edid,
          nparse, op, arg, rc, res, wire, oob>>

devvars == <<supported, native, mode, base8, low_blank, memory, buf, cap, edid>>

NoArg == [none |-> 0]

\* A device as created, with the default modes and a buffer of c bytes.
InitDevice(c) ==
  /\ supported = DefaultModes
  /\ native = NativeCleared
  /\ mode = Mode(0, 0, 0, NoBase, 0)
  /\ base8 = NoBase
  /\ low_blank = FALSE
  /\ memory = DeviceMemory
  /\ buf = <<>>
  /\ cap = c
  /\ edid = EdidInit
  /\ nparse = 0
  /\ op = "idle"
  /\ arg = NoArg
  /\ rc = "dlo_ok"
  /\ res = DLO_INVALID_MODE
  /\ wire = <<>>
  /\ oob = FALSE

Init == \E c \in BufSizes : InitDevice(c)

\* A device with a buffer of c bytes that has parsed the block ptr of its
\* monitor after it was created.
InitParsed(c, ptr) ==
  \E lay \in StdOverruns :
  LET r == dlo_mode_parse_edid(DefaultModes, NativeCleared, EdidInit, ptr,
                               lay)
  IN  /\ supported = r.sup
      /\ native = r.native
      /\ edid = r.edid
      /\ nparse = 1
      /\ mode = Mode(0, 0, 0, NoBase, 0)
      /\ base8 = NoBase
      /\ low_blank = FALSE
      /\ memory = DeviceMemory
      /\ buf = <<>>
      /\ cap = c
      /\ op = "idle"
      /\ arg = NoArg
      /\ rc = "dlo_ok"
      /\ res = DLO_INVALID_MODE
      /\ wire = <<>>
      /\ oob = FALSE

\* Devices without and with an EDID parsed.
InitMode ==
  \E c \in BufSizes :
    \/ InitDevice(c)
    \/ \E ptr \in ModeEdidInputs : InitParsed(c, ptr)

(***************************************************************************)
(* Operations.                                                             *)
(***************************************************************************)

UseDefaultModes ==
  /\ op = "idle"
  /\ supported' = DefaultModes
  /\ op' = "use_default_modes"
  /\ arg' = NoArg
  /\ rc' = "dlo_ok"
  /\ res' = DLO_INVALID_MODE
  /\ wire' = <<>>
  /\ oob' = FALSE
  /\ UNCHANGED <<native, mode, base8, low_blank, memory, buf, cap, edid, nparse>>

\* The internal lookup, as its callers in the file reach it.
GetModeNumber(a) ==
  /\ op = "idle"
  /\ op' = "get_mode_number"
  /\ arg' = [width |-> a[1], height |-> a[2], refresh |-> a[3], bpp |-> a[4]]
  /\ res' = get_mode_number(supported, a[1], a[2], a[3], a[4])
  /\ rc' = "dlo_ok"
  /\ wire' = <<>>
  /\ oob' = FALSE
  /\ UNCHANGED <<devvars, nparse>>

\* The public lookup.
Lookup(a) ==
  /\ op = "idle"
  /\ op' = "dlo_mode_lookup"
  /\ arg' = [width |-> a[1], height |-> a[2], refresh |-> a[3], bpp |-> a[4]]
  /\ res' = dlo_mode_lookup(supported, a[1], a[2], a[3], a[4])
  /\ rc' = "dlo_ok"
  /\ wire' = <<>>
  /\ oob' = FALSE
  /\ UNCHANGED <<devvars, nparse>>

ParseEdid(ptr) ==
  /\ op = "idle"
  /\ nparse < MaxParses
  /\ \E lay \in StdOverruns :
     \E r \in {dlo_mode_parse_edid(supported, native, edid, ptr, lay)} :
         /\ supported' = r.sup
         /\ native' = r.native
         /\ edid' = r.edid
         /\ rc' = r.rc
         /\ oob' = r.oob
         /\ res' = r.idx
  /\ nparse' = nparse + 1
  /\ op' = "dlo_mode_parse_edid"
  /\ arg' = [ptr |-> ptr]
  /\ wire' = <<>>
  /\ UNCHANGED <<mode, base8, low_blank, memory, buf, cap>>

Stage(bytes) ==
  /\ op = "idle"
  /\ Len(buf) < MaxPending
  /\ LET r == vbuf(buf, cap, bytes)
     IN  /\ buf' = r.buf
         /\ rc' = r.rc
  /\ op' = "vbuf"
  /\ arg' = [bytes |-> bytes]
  /\ res' = DLO_INVALID_MODE
  /\ wire' = <<>>
  /\ oob' = FALSE
  /\ UNCHANGED <<supported, native, mode, base8, low_blank, memory, cap, edid, nparse>>

StageVreg(reg, val) ==
  /\ op = "idle"
  /\ Len(buf) < MaxPending
  /\ LET r == vreg(buf, cap, reg, val)
     IN  /\ buf' = r.buf
         /\ rc' = r.rc
  /\ op' = "vreg"
  /\ arg' = [reg |-> reg, val |-> val]
  /\ res' = DLO_INVALID_MODE
  /\ wire' = <<>>
  /\ oob' = FALSE
  /\ UNCHANGED <<supported, native, mode, base8, low_blank, memory, cap, edid, nparse>>

Flush(ok) ==
  /\ op = "idle"
  /\ LET r == dlo_usb_write(buf, ok)
     IN  /\ buf' = r.buf
         /\ rc' = r.rc
         /\ wire' = r.sent
  /\ op' = "dlo_usb_write"
  /\ arg' = [ok |-> ok]
  /\ res' = DLO_INVALID_MODE
  /\ oob' = FALSE
  /\ UNCHANGED <<supported, native, mode, base8, low_blank, memory, cap, edid, nparse>>

ModeChange(desc, num, fail) ==
  /\ op = "idle"
  /\ LET dev == [mode |-> mode, base8 |-> base8, low_blank |-> low_blank,
                 buf |-> buf, cap |-> cap]
     IN  \E r \in {dlo_mode_change(supported, dev, desc, num, fail)} :
         /\ mode' = r.mode
         /\ base8' = r.base8
         /\ low_blank' = r.low_blank
         /\ buf' = r.buf
         /\ rc' = r.rc
         /\ wire' = r.sent
  /\ op' = "dlo_mode_change"
  /\ arg' = [desc |-> desc, mode |-> num, fail |-> fail]
  /\ res' = IF num = DLO_INVALID_MODE
            THEN get_mode_number(supported, desc.width, desc.height, 0, desc.bpp)
            ELSE num
  /\ oob' = FALSE
  /\ UNCHANGED <<supported, native, memory, cap, edid, nparse>>

\* The caller has taken the result of the operation.
Return ==
  /\ op # "idle"
  /\ op' = "idle"
  /\ arg' = NoArg
  /\ rc' = "dlo_ok"
  /\ res' = DLO_INVALID_MODE
  /\ wire' = <<>>
  /\ oob' = FALSE
  /\ UNCHANGED <<devvars, nparse>>

(***************************************************************************)
(* Specifications.  SpecEdid: the mode resolver on one device (lookups and *)
(* EDID parses).  SpecMode: the command buffer and the mode-select         *)
(* protocol, on devices of every buffer capacity, without and with an EDID *)
(* parsed.  Spec: every operation.                                         *)
(***************************************************************************)

NextEdid ==
  \/ UseDefaultModes
  \/ \E a \in LookupInputs : GetModeNumber(a)
  \/ \E a \in LookupInputs : Lookup(a)
  \/ \E ptr \in EdidInputs : ParseEdid(ptr)
  \/ Return

NextMode ==
  \/ \E bytes \in StageInputs : Stage(bytes)
  \/ StageVreg(32, 0)
  \/ \E ok \in BOOLEAN : Flush(ok)
  \/ \E desc \in DesiredInputs, num \in ModeNumInputs, fail \in FailInputs :
       ModeChange(desc, num, fail)
  \/ Return

Next == NextEdid \/ NextMode

SpecEdid == InitDevice(MaxBuf) /\ [][NextEdid]_vars

SpecMode == InitMode /\ [][NextMode]_vars

Spec == Init /\ [][Next]_vars

(***************************************************************************)
(* Properties.                                                             *)
(***************************************************************************)

Success == {"dlo_ok", "dlo_warn_dl160_mode"}

\* The slot of the first sentinel of sup (0-based), DLO_MODE_DATA_NUM if
\* there is none.
FirstSentinel(sup) ==
  CHOOSE i \in 0..DLO_MODE_DATA_NUM :
    /\ i = DLO_MODE_DATA_NUM \/ sup[i + 1] = DLO_INVALID_MODE
    /\ \A j \in 0..(i - 1) : sup[j + 1] # DLO_INVALID_MODE

\* Catalogue entry n satisfies the request a, zero fields of a being
\* "don't care".
Matches(n, a) ==
  /\ ModeWidth(n) = a.width
  /\ a.bpp = 0 \/ ModeBpp(n) = a.bpp
  /\ a.height = 0 \/ ModeHeight(n) = a.height
  /\ a.refresh = 0 \/ ModeRefresh(n) = a.refresh

MatchingSlots(sup, a) ==
  {i \in 0..(FirstSentinel(sup) - 1) : Matches(sup[i + 1], a)}

\* C1: get_mode_number returns the entry of the first slot, counted from
\* slot 0 and before the first sentinel, whose catalogue entry matches the
\* width and every non-zero one of bpp, height and refresh; it returns
\* DLO_INVALID_MODE exactly when no slot before the first sentinel matches,
\* so a slot after the sentinel is never returned.
C1_FirstMatchBeforeSentinel ==
  op = "get_mode_number" =>
    LET hits == MatchingSlots(supported, arg)
    IN  IF hits = {}
        THEN res = DLO_INVALID_MODE
        ELSE LET first == CHOOSE i \in hits : \A j \in hits : i <= j
             IN  res = supported[first + 1]

\* A lookup with "don't care" fields on a list rebuilt from an EDID, which
\* has a valid entry behind its sentinel, answered from a slot after slot 0.
C1_Witness ==
  /\ op = "get_mode_number"
  /\ FirstSentinel(supported) < DLO_MODE_DATA_NUM - 1
  /\ supported[DLO_MODE_DATA_NUM] # DLO_INVALID_MODE
  /\ arg.refresh = 0
  /\ res # DLO_INVALID_MODE
  /\ res # supported[1]

\* C2: when dlo_mode_change returns dlo_ok or dlo_warn_dl160_mode, the
\* width, height, bpp and base of dev->mode are those of the desired mode
\* and dev->base8 is the desired base plus 2 * width * height, modulo 2^32.
C2_SuccessRecordsDesired ==
  (op = "dlo_mode_change" /\ rc \in Success) =>
    LET d == arg.desc
        n == d.base.lo + 2 * d.width * d.height
    IN  /\ mode.width = d.width
        /\ mode.height = d.height
        /\ mode.bpp = d.bpp
        /\ mode.base = d.base
        /\ base8.lo = n % 65536
        /\ base8.hi = (d.base.hi + n \div 65536) % 65536

\* A successful mode change whose fine-detail base wraps around 2^32.
C2_Witness ==
  /\ op = "dlo_mode_change"
  /\ rc \in Success
  /\ arg.desc.base.hi = 65535
  /\ base8.hi < 65535
  /\ mode.width = 1024

\* The 34 bytes of the base-address group: lock, the three bytes of base
\* to registers 0x20..0x22, the three bytes of base8 to 0x26..0x28, unlock.
BaseGroup(base, b8) ==
  WRITE_VIDREG_LOCK
    \o <<175, 32, 32, base.hi % 256>>
    \o <<175, 32, 33, base.lo \div 256>>
    \o <<175, 32, 34, base.lo % 256>>
    \o <<175, 32, 38, b8.hi % 256>>
    \o <<175, 32, 39, b8.lo \div 256>>
    \o <<175, 32, 40, b8.lo % 256>>
    \o WRITE_VIDREG_UNLOCK

\* The call that returns in this step is a mode change that started with
\* an empty command buffer, asks for a width, height or bpp other than the
\* current one, has every transport call succeed, and returns success.
C3_Case ==
  /\ op = "idle"
  /\ op' = "dlo_mode_change"
  /\ buf = <<>>
  /\ arg'.fail = "none"
  /\ \/ arg'.desc.width # mode.width
     \/ arg'.desc.height # mode.height
     \/ arg'.desc.bpp # mode.bpp
  /\ rc' \in Success

\* C3: a mode change to a width, height or bpp other than the current one,
\* started with an empty command buffer and with every transport call
\* succeeding, sends exactly: one bulk write of lock + six register writes
\* + unlock, a control write of the enable blob of the catalogue entry, a
\* bulk write of its program blob, a control write of the postamble; and
\* nothing else, so the base-address bytes are never mixed with the
\* mode-program bytes.  The mode change meant is one that runs to its end
\* (it returns dlo_ok or dlo_warn_dl160_mode).
C3_TransportSequence ==
  [][C3_Case =>
       LET key == dlo_mode_data[res' + 1]
       IN  wire' = << [chan |-> "bulk", blob |-> "buffer", key |-> NoKey,
                       bytes |-> BaseGroup(arg'.desc.base, base8')],
                      [chan |-> "control", blob |-> "mode_en", key |-> key,
                       bytes |-> <<>>],
                      [chan |-> "bulk", blob |-> "data", key |-> key,
                       bytes |-> <<>>],
                      [chan |-> "control", blob |-> "postamble",
                       key |-> NoKey, bytes |-> <<>>] >>]_vars

\* A mode change has returned success after four transfers, the first of
\* them the 34 bytes of the base-address group and nothing staged before.
C3_Witness ==
  /\ op = "dlo_mode_change"
  /\ rc = "dlo_ok"
  /\ arg.fail = "none"
  /\ Len(wire) = 4
  /\ Len(wire[1].bytes) = 34
  /\ wire[2].blob = "mode_en"
  /\ buf = <<>>

\* Bit b (0 = least significant) of the 24-bit established-timing field of
\* the block ptr: timings[0] | timings[1] << 8 | resvd << 16.
EstBit(ptr, b) == (RD_B(ptr, 35 + b \div 8) \div (2 ^ (b % 8))) % 2 = 1

\* Descriptor t (0..3) of the block ptr is a detailed timing descriptor.
IsDetail(ptr, t) ==
  \E k \in 0..2 : RD_B(ptr, 54 + t * 18 + k) # 0

\* The call that returns in this step is a successful parse of the block
\* ptr on a device that holds the default list.
ParsedOnDefault(ptr) ==
  /\ op = "idle"
  /\ supported = DefaultModes
  /\ op' = "dlo_mode_parse_edid"
  /\ arg'.ptr = ptr
  /\ rc' = "dlo_ok"

\* C4: an established-timing table entry is appended to the supported list
\* only if its bit is set in the 24-bit established-timing field; for an
\* EDID with timings[0] = 0x20, every other timing byte zero and no
\* detailed descriptor, parsed on the default list, supported[0] is the
\* catalogue index of 640x480 @ 60 Hz and supported[1] is
\* DLO_INVALID_MODE.
C4_OnlySetBitsAppended ==
  [][\A ptr \in EdidInputs :
       (ParsedOnDefault(ptr) /\ \A t \in 0..3 : ~IsDetail(ptr, t)) =>
         /\ \A i \in 0..(FirstSentinel(supported') - 1) :
              \E b \in 0..23 :
                /\ EstBit(ptr, b)
                /\ est_timings[b + 1][1] = ModeWidth(supported'[i + 1])
                /\ est_timings[b + 1][2] = ModeHeight(supported'[i + 1])
                /\ est_timings[b + 1][3] = ModeRefresh(supported'[i + 1])
         /\ (RD_B(ptr, 35) = 32 /\ RD_B(ptr, 36) = 0 /\ RD_B(ptr, 37) = 0) =>
              /\ ModeWidth(supported'[1]) = 640
              /\ ModeHeight(supported'[1]) = 480
              /\ ModeRefresh(supported'[1]) = 60
              /\ supported'[2] = DLO_INVALID_MODE]_vars

\* The active width and height that descriptor 0 of the block ptr gives.
Desc0Width(ptr)  == RD_B(ptr, 56) + (RD_B(ptr, 58) \div 16) * 256
Desc0Height(ptr) == RD_B(ptr, 59) + (RD_B(ptr, 61) \div 16) * 256

\* C5: on a device holding the default list, after a successful parse of
\* an EDID whose only detailed descriptor is descriptor 0, of active
\* geometry w x h, if the catalogue has an entry of that width and height
\* with a refresh rate in [50, 100), then dev->native has width w and
\* height h and the supported list holds, before its first sentinel, the
\* index of a w x h entry; for every geometry of the catalogue.
C5_NativeFromDescriptor0 ==
  [][\A ptr \in EdidInputs :
       ( /\ ParsedOnDefault(ptr)
         /\ IsDetail(ptr, 0)
         /\ \A t \in 1..3 : ~IsDetail(ptr, t)
         /\ \E n \in 0..(DLO_MODE_DATA_NUM - 1) :
              /\ ModeWidth(n) = Desc0Width(ptr)
              /\ ModeHeight(n) = Desc0Height(ptr)
              /\ ModeRefresh(n) \in 50..99 ) =>
         /\ native'.width = Desc0Width(ptr)
         /\ native'.height = Desc0Height(ptr)
         /\ \E i \in 0..(FirstSentinel(supported') - 1) :
              /\ ModeWidth(supported'[i + 1]) = Desc0Width(ptr)
              /\ ModeHeight(supported'[i + 1]) = Desc0Height(ptr)]_vars

\* C6: after every successful parse, from the default list or from the
\* list an earlier parse left, (a) some slot of the list holds
\* DLO_INVALID_MODE: fewer than DLO_MODE_DATA_NUM - 1 entries were appended
\* and nothing was stored past the array; (b) every entry before the first
\* sentinel is an index of the catalogue and names a 24 bpp entry.
C6_ListTerminatedAndValid ==
  (op = "dlo_mode_parse_edid" /\ rc = "dlo_ok") =>
    /\ \E i \in 1..DLO_MODE_DATA_NUM : supported[i] = DLO_INVALID_MODE
    /\ res < DLO_MODE_DATA_NUM - 1
    /\ ~oob
    /\ \A i \in 0..(FirstSentinel(supported) - 1) :
         /\ supported[i + 1] < Len(dlo_mode_data)
         /\ ModeBpp(supported[i + 1]) = 24

\* A second parse, on the list the first one left, that appended every
\* established timing and every rate of four detailed descriptors.
C6_Witness ==
  /\ op = "dlo_mode_parse_edid"
  /\ rc = "dlo_ok"
  /\ nparse = 2
  /\ res = 31
  /\ FirstSentinel(supported) = 31

\* C7: whenever dlo_mode_change returns a failure, the command buffer
\* holds no staged bytes (bufptr = buffer), for every capacity of the
\* buffer, those under the 34 bytes of the base-address group included.
C7_FailureLeavesBufferEmpty ==
  (op = "dlo_mode_change" /\ rc \notin Success) => buf = <<>>

\* base + 3 * width * height of the mode record m, as a pair of 16-bit
\* halves that does not wrap.
FrameEnd(m) ==
  LET n  == 3 * m.width * m.height
      lo == m.base.lo + (n % 65536)
  IN  [hi |-> m.base.hi + n \div 65536 + lo \div 65536, lo |-> lo % 65536]

\* C8: after every successful dlo_mode_change, dev->mode has bpp 24, an
\* even base, and base + 3 * width * height <= dev->memory; for every
\* desired mode and mode number, an explicit mode number and a desired bpp
\* of 0 included.
C8_ModeRecordInvariants ==
  (op = "dlo_mode_change" /\ rc \in Success) =>
    /\ mode.bpp = 24
    /\ mode.base.lo % 2 = 0
    /\ \/ FrameEnd(mode).hi < memory.hi
       \/ FrameEnd(mode).hi = memory.hi /\ FrameEnd(mode).lo <= memory.lo

\* C9: vbuf and vreg never write a part of their bytes: vbuf of len bytes
\* returns dlo_err_buf_full exactly when bufend - bufptr < len, vreg
\* exactly when bufend - bufptr < 4; on dlo_err_buf_full the buffer and
\* bufptr are as before; on success exactly the given bytes (for vreg: AF
\* 20 reg val) are appended at the old bufptr, which advances by len
\* (by 4).
C9_NoPartialWrite ==
  [][(op = "idle" /\ op' \in {"vbuf", "vreg"}) =>
       LET bytes == IF op' = "vbuf" THEN arg'.bytes
                    ELSE <<175, 32, arg'.reg, arg'.val>>
       IN  /\ rc' \in {"dlo_ok", "dlo_err_buf_full"}
           /\ (rc' = "dlo_err_buf_full") <=> (cap - Len(buf) < Len(bytes))
           /\ (rc' = "dlo_err_buf_full") => buf' = buf
           /\ (rc' = "dlo_ok") =>
                /\ Len(buf') = Len(buf) + Len(bytes)
                /\ SubSeq(buf', 1, Len(buf)) = buf
                /\ SubSeq(buf', Len(buf) + 1, Len(buf')) = bytes]_vars

\* vbuf has refused bytes that the room left after earlier staged bytes
\* cannot hold.
C9_Witness ==
  /\ op = "vbuf"
  /\ rc = "dlo_err_buf_full"
  /\ buf # <<>>
  /\ Len(buf) < cap
  /\ Len(arg.bytes) <= cap

\* C10: buffer <= bufptr <= bufend after every sequence of vbuf, vreg,
\* flush and dlo_mode_change calls, failed ones included, for every
\* capacity of the buffer.
C10_CursorWithinBuffer ==
  /\ 0 <= Len(buf)
  /\ Len(buf) <= cap

\* A mode change has failed with the buffer filled to its last byte.
C10_Witness ==
  /\ op = "dlo_mode_change"
  /\ rc = "dlo_err_buf_full"
  /\ Len(buf) = cap
  /\ cap > 0

\* The sum of the 16 bytes of row r (0..7) of the block ptr.
RowSum(ptr, r) ==
  ptr[16 * r + 1] + ptr[16 * r + 2] + ptr[16 * r + 3] + ptr[16 * r + 4]
    + ptr[16 * r + 5] + ptr[16 * r + 6] + ptr[16 * r + 7] + ptr[16 * r + 8]
    + ptr[16 * r + 9] + ptr[16 * r + 10] + ptr[16 * r + 11]
    + ptr[16 * r + 12] + ptr[16 * r + 13] + ptr[16 * r + 14]
    + ptr[16 * r + 15] + ptr[16 * r + 16]

\* The unsigned sum of the 128 bytes of the block ptr.
BlockSum(ptr) ==
  RowSum(ptr, 0) + RowSum(ptr, 1) + RowSum(ptr, 2) + RowSum(ptr, 3)
    + RowSum(ptr, 4) + RowSum(ptr, 5) + RowSum(ptr, 6) + RowSum(ptr, 7)

\* The first 8 bytes of the block ptr are 00 FF FF FF FF FF FF 00.
HasHeader(ptr) ==
  /\ ptr[1] = 0
  /\ \A i \in 2..7 : ptr[i] = 255
  /\ ptr[8] = 0

\* C11: for a 128-byte block that starts with the header,
\* dlo_mode_parse_edid returns success exactly when the unsigned sum of
\* the 128 bytes is 0 modulo 256; a block that does not start with the
\* header gets dlo_err_edid_fail whatever its checksum.
C11_HeaderAndChecksum ==
  op = "dlo_mode_parse_edid" =>
    /\ Len(arg.ptr) = 128
    /\ rc \in {"dlo_ok", "dlo_err_edid_fail"}
    /\ HasHeader(arg.ptr) => (rc = "dlo_ok" <=> BlockSum(arg.ptr) % 256 = 0)
    /\ ~HasHeader(arg.ptr) => rc = "dlo_err_edid_fail"

\* A block with the header and a wrong checksum has been refused.
C11_Witness ==
  /\ op = "dlo_mode_parse_edid"
  /\ HasHeader(arg.ptr)
  /\ BlockSum(arg.ptr) % 256 # 0
  /\ rc = "dlo_err_edid_fail"

\* The request dlo_mode_change looks up for the desired mode d.
RequestOf(d) ==
  [width |-> d.width, height |-> d.height, refresh |-> 0, bpp |-> d.bpp]

\* The mode change of desired mode d and mode number num, on the list sup,
\* has no catalogue entry to select or an odd base address.
Refused(sup, d, num) ==
  \/ num = DLO_INVALID_MODE /\ MatchingSlots(sup, RequestOf(d)) = {}
  \/ num # DLO_INVALID_MODE /\ num >= Len(dlo_mode_data)
  \/ d.base.lo % 2 = 1

\* C12: dlo_mode_change fails with dlo_err_bad_mode when the mode number
\* is DLO_INVALID_MODE and the lookup of the desired width, height and bpp
\* (refresh 0) finds nothing, when the mode number is no index of the
\* catalogue, or when the desired base is odd; and a call that returns
\* dlo_err_bad_mode changes no field of the device (mode, base8, low_blank,
\* supported, native, the staged bytes) and makes no transport call.
C12_BadModeChangesNothing ==
  [][(op = "idle" /\ op' = "dlo_mode_change") =>
       /\ Refused(supported, arg'.desc, arg'.mode) => rc' = "dlo_err_bad_mode"
       /\ (rc' = "dlo_err_bad_mode") =>
            /\ Refused(supported, arg'.desc, arg'.mode)
            /\ UNCHANGED <<mode, base8, low_blank, supported, native, buf>>
            /\ wire' = <<>>]_vars

\* A mode change for a geometry the list does not hold has been refused
\* with bytes staged before it still in the buffer.
C12_Witness ==
  /\ op = "dlo_mode_change"
  /\ rc = "dlo_err_bad_mode"
  /\ arg.mode = DLO_INVALID_MODE
  /\ arg.desc.base.lo % 2 = 0
  /\ buf # <<>>
  /\ wire = <<>>

\* C13: when dlo_mode_parse_edid returns dlo_err_edid_fail (wrong header
\* or wrong checksum) the device is as before: dev->supported and
\* dev->native keep their values, and every lookup answers after the failed
\* parse what it answered before it.
C13_FailedParseChangesNothing ==
  [][(op = "idle" /\ op' = "dlo_mode_parse_edid"
                  /\ rc' = "dlo_err_edid_fail") =>
       /\ UNCHANGED <<supported, native, mode, base8, low_blank, memory,
                      buf, cap, edid>>
       /\ \A a \in LookupInputs :
            dlo_mode_lookup(supported', a[1], a[2], a[3], a[4])
              = dlo_mode_lookup(supported, a[1], a[2], a[3], a[4])]_vars

\* A block has been refused on a device whose list and native mode an
\* earlier parse had set.
C13_Witness ==
  /\ op = "dlo_mode_parse_edid"
  /\ rc = "dlo_err_edid_fail"
  /\ nparse = 2
  /\ supported # DefaultModes
  /\ native.width # 0

\* The list sup without the entry of slot i (0-based): the entries behind
\* it move up by one slot and a sentinel enters at the end.
RemoveSlot(sup, i) ==
  [j \in 1..DLO_MODE_DATA_NUM |->
     IF j - 1 < i THEN sup[j]
     ELSE IF j < DLO_MODE_DATA_NUM THEN sup[j + 1]
     ELSE DLO_INVALID_MODE]

\* Lists whose entries before the first sentinel are a sub-sequence of
\* those of sup: sup cut short at a slot, and sup without one or two of
\* its entries.
Narrowed(sup) ==
  LET k == FirstSentinel(sup)
  IN  { [sup EXCEPT ![i + 1] = DLO_INVALID_MODE] : i \in 0..(k - 1) }
        \cup { RemoveSlot(sup, i) : i \in 0..(k - 1) }
        \cup { RemoveSlot(RemoveSlot(sup, i), j) :
                 i \in 0..(k - 1), j \in 0..(k - 2) }

\* C14: dlo_mode_lookup at 24 bpp is monotone in the supported list: when
\* the entries before the first sentinel of a second list are a
\* sub-sequence of those of a first list, every width, height and refresh
\* that the second list accepts (result other than DLO_INVALID_MODE) the
\* first list accepts too: what the first list rejects, every such second
\* list rejects.
C14_LookupMonotone ==
  (op = "dlo_mode_lookup" /\ arg.bpp = 24) =>
    \/ res # DLO_INVALID_MODE
    \/ \A sub \in Narrowed(supported) :
         dlo_mode_lookup(sub, arg.width, arg.height, arg.refresh, 24)
           = DLO_INVALID_MODE

\* A lookup accepted on a list rebuilt from an EDID that the list without
\* one of its entries rejects.
C14_Witness ==
  /\ op = "dlo_mode_lookup"
  /\ arg.bpp = 24
  /\ res # DLO_INVALID_MODE
  /\ supported # DefaultModes
  /\ \E i \in 0..(FirstSentinel(supported) - 1) :
       dlo_mode_lookup(RemoveSlot(supported, i), arg.width, arg.height,
                       arg.refresh, 24) = DLO_INVALID_MODE

\* The refresh rates of the w x h entries that sup holds before its first
\* sentinel.
RatesOf(sup, w, h) ==
  { ModeRefresh(sup[i + 1]) :
      i \in { j \in 0..(FirstSentinel(sup) - 1) :
                ModeWidth(sup[j + 1]) = w /\ ModeHeight(sup[j + 1]) = h } }

\* C15: for a detailed descriptor whose geometry is in the catalogue at
\* several refresh rates in [50, 100), dev->native is taken from the first
\* hit: dev->native.refresh is the lowest matching rate of the descriptor
\* and later hits, at higher rates, do not overwrite it.  Stated for blocks
\* whose only detailed descriptor is descriptor 0; every matching rate is
\* in the list the parse leaves.
C15_NativeFromFirstHit ==
  [][( /\ op = "idle"
       /\ op' = "dlo_mode_parse_edid"
       /\ rc' = "dlo_ok"
       /\ IsDetail(arg'.ptr, 0)
       /\ \A t \in 1..3 : ~IsDetail(arg'.ptr, t)
       /\ native'.width # 0 ) =>
       LET rates == RatesOf(supported', Desc0Width(arg'.ptr),
                            Desc0Height(arg'.ptr))
       IN  /\ native'.width = Desc0Width(arg'.ptr)
           /\ native'.height = Desc0Height(arg'.ptr)
           /\ native'.refresh \in rates
           /\ \A r \in rates : native'.refresh <= r]_vars

\* The entries of sup before its first sentinel.
Offered(sup) == SubSeq(sup, 1, FirstSentinel(sup))

\* C16: the supported list a successful dlo_mode_parse_edid leaves depends
\* on the bytes of the block alone: a block parsed on a device that has
\* parsed another block before leaves the supported list and the native
\* mode that it leaves on a device holding the default list.
C16_ListDependsOnBlockAlone ==
  [][(op = "idle" /\ op' = "dlo_mode_parse_edid" /\ rc' = "dlo_ok") =>
       LET fresh == dlo_mode_parse_edid(DefaultModes, NativeCleared,
                                        EdidInit, arg'.ptr, "apart")
       IN  /\ Offered(supported') = Offered(fresh.sup)
           /\ native' = fresh.native]_vars

\* C19: after a build that appended k entries every slot from k on holds
\* the sentinel, the last slot DLO_MODE_DATA_NUM - 1 included, whatever the
\* list held before.
C19_RestIsSentinel ==
  (op = "dlo_mode_parse_edid" /\ rc = "dlo_ok") =>
    \A i \in res..(DLO_MODE_DATA_NUM - 1) :
      supported[i + 1] = DLO_INVALID_MODE

\* The transfers of program blobs among the transport calls w.
Programs(w) == { i \in 1..Len(w) : w[i].blob = "data" }

\* C17: after every successful dlo_mode_change, dev->mode.refresh is the
\* refresh rate of the catalogue entry whose program blob went to the
\* adapter last; a successful mode change to the current width, height and
\* bpp with a mode number of another refresh rate does not leave the
\* recorded rate other than the programmed one.  Stated step by step: a
\* successful call that sends a program blob records the rate of that
\* entry, and one that sends none leaves the recorded rate as it was.
C17_RefreshIsProgrammed ==
  [][(op = "idle" /\ op' = "dlo_mode_change" /\ rc' \in Success) =>
       IF Programs(wire') # {}
       THEN \A i \in Programs(wire') : mode'.refresh = wire'[i].key[3]
       ELSE mode'.refresh = mode.refresh]_vars

\* C18: a successful dlo_mode_change selects only a catalogue entry that
\* is in dev->supported before the first sentinel and has the width, the
\* height and the bpp of the desired mode, also when the caller passes a
\* mode number.
C18_SelectedIsSupportedAndMatches ==
  (op = "dlo_mode_change" /\ rc \in Success) =>
    /\ \E i \in 0..(FirstSentinel(supported) - 1) : supported[i + 1] = res
    /\ ModeWidth(res) = arg.desc.width
    /\ ModeHeight(res) = arg.desc.height
    /\ ModeBpp(res) = arg.desc.bpp

\* The call that returns in this step is a mode change that fails at a
\* transport call of the base-address group or of the mode-program
\* sequence.
C20_Failed ==
  /\ op = "idle"
  /\ op' = "dlo_mode_change"
  /\ rc' = "dlo_err_usb"
  /\ arg'.fail \in {"set_base", "enable", "program", "postamble"}

\* Such a failed call that was a change to another width, height or bpp.
C20_Case ==
  /\ C20_Failed
  /\ \/ arg'.desc.width # mode.width
     \/ arg'.desc.height # mode.height
     \/ arg'.desc.bpp # mode.bpp

\* C20: when dlo_mode_change fails because a transport call fails at the
\* base-address group or in the mode-program sequence, the width, height
\* and bpp of dev->mode are still those of the mode before, so that the
\* same mode change made again, with the transport working, sends the
\* whole enable, program, postamble sequence again.
C20_FailedChangeIsRedone ==
  [][/\ C20_Failed =>
          /\ mode'.width = mode.width
          /\ mode'.height = mode.height
          /\ mode'.bpp = mode.bpp
     /\ C20_Case =>
          LET dev   == [mode |-> mode', base8 |-> base8',
                        low_blank |-> low_blank', buf |-> buf', cap |-> cap']
              again == dlo_mode_change(supported', dev, arg'.desc,
                                       arg'.mode, "none")
              key   == dlo_mode_data[res' + 1]
          IN  /\ again.rc \in Success
              /\ Len(again.sent) = 4
              /\ again.sent[2] = [chan |-> "control", blob |-> "mode_en",
                                  key |-> key, bytes |-> <<>>]
              /\ again.sent[3] = [chan |-> "bulk", blob |-> "data",
                                  key |-> key, bytes |-> <<>>]
              /\ again.sent[4] = [chan |-> "control", blob |-> "postamble",
                                  key |-> NoKey, bytes |-> <<>>]]_vars

\* A mode change has failed at its program blob, with the enable blob
\* sent and the mode recorded still the one before.
C20_Witness ==
  /\ op = "dlo_mode_change"
  /\ rc = "dlo_err_usb"
  /\ arg.fail = "program"
  /\ Len(wire) = 2
  /\ wire[2].blob = "mode_en"
  /\ mode.width # arg.desc.width
  /\ mode.width # 0

\* The public lookup of catalogue entry n's own width, height and refresh
\* at depth 24.
LookupOfEntry(sup, n) ==
  dlo_mode_lookup(sup, ModeWidth(n), ModeHeight(n), ModeRefresh(n), 24)

\* C21: the catalogue is keyed by width, height and refresh: once
\* use_default_modes has returned, the lookup of every catalogue entry's
\* own width, height and refresh at depth 24 returns that entry's index;
\* 1024 x 768 at 60 Hz is entry 21, and 1024 x 768 at refresh 0 is the
\* lowest index of that geometry, 18.
C21_CatalogueKeyedByTriple ==
  op = "use_default_modes" =>
    /\ \A n \in 0..(DLO_MODE_DATA_NUM - 1) : LookupOfEntry(supported, n) = n
    /\ dlo_mode_lookup(supported, 1024, 768, 60, 24) = 21
    /\ dlo_mode_lookup(supported, 1024, 768, 0, 24) = 18

\* C21, the entries that are found under their own index, and the two
\* examples (used to locate what fails).
C21_UniqueEntriesFound ==
  op = "use_default_modes" =>
    /\ \A n \in 0..(DLO_MODE_DATA_NUM - 1) :
         n # 5 => LookupOfEntry(supported, n) = n
    /\ LookupOfEntry(supported, 5) = 4
    /\ dlo_mode_lookup(supported, 1024, 768, 60, 24) = 21
    /\ dlo_mode_lookup(supported, 1024, 768, 0, 24) = 18

\* What the mode change that returns in this step sent after the flush of
\* the bytes staged before the call.
OwnTransfers == IF buf = <<>> \/ wire' = <<>> THEN wire' ELSE Tail(wire')

\* The three transfers of the mode-program sequence of catalogue entry n.
ProgramOf(n) ==
  << [chan |-> "control", blob |-> "mode_en", key |-> dlo_mode_data[n + 1],
      bytes |-> <<>>],
     [chan |-> "bulk", blob |-> "data", key |-> dlo_mode_data[n + 1],
      bytes |-> <<>>],
     [chan |-> "control", blob |-> "postamble", key |-> NoKey,
      bytes |-> <<>>] >>

\* C22: a mode change issues the mode-program sequence (enable blob,
\* program blob, postamble) if and only if the desired width, height or bpp
\* differs from that of dev->mode: no transfer of the sequence is ever made
\* when the three are equal, and a mode change that runs to its end sends
\* the whole sequence after the base-address group when one differs and
\* the base-address group alone when the three are equal, whatever
\* low_blank holds.
C22_ProgramIffGeometryDiffers ==
  [][(op = "idle" /\ op' = "dlo_mode_change") =>
       LET geo == \/ arg'.desc.width # mode.width
                  \/ arg'.desc.height # mode.height
                  \/ arg'.desc.bpp # mode.bpp
           group == [chan |-> "bulk", blob |-> "buffer", key |-> NoKey,
                     bytes |-> BaseGroup(arg'.desc.base, base8')]
       IN  /\ (\E i \in DOMAIN wire' :
                 wire'[i].blob \in {"mode_en", "data", "postamble"}) => geo
           /\ rc' \in Success =>
                OwnTransfers = IF geo THEN <<group>> \o ProgramOf(res')
                               ELSE <<group>>]_vars

\* A mode change to mode 21 has returned success on a device already in
\* its width, height and depth, having sent the base-address group alone.
C22_Witness ==
  /\ op = "dlo_mode_change"
  /\ rc \in Success
  /\ Len(wire) = 1
  /\ wire[1].blob = "buffer"
  /\ Len(wire[1].bytes) = 34
  /\ mode.width = 1024
  /\ arg.mode = 21

\* C23: when the flush that opens a mode change fails, dlo_mode_change
\* returns the value DLO_INVALID_MODE as its result code, makes no further
\* transport call, and leaves dev->mode, dev->base8 and dev->low_blank as
\* they were; a mode change that is not refused and whose first flush
\* fails returns nothing else.
C23_FirstFlushFailure ==
  [][(op = "idle" /\ op' = "dlo_mode_change") =>
       /\ (arg'.fail = "flush" /\ rc' # "dlo_err_bad_mode") =>
            rc' = "DLO_INVALID_MODE"
       /\ rc' = "DLO_INVALID_MODE" =>
            /\ arg'.fail = "flush"
            /\ wire' = <<>>
            /\ mode' = mode
            /\ base8' = base8
            /\ low_blank' = low_blank]_vars

\* A mode change to 1024 x 768 at another base has returned
\* DLO_INVALID_MODE on a device that is in 640 x 480.
C23_Witness ==
  /\ op = "dlo_mode_change"
  /\ rc = "DLO_INVALID_MODE"
  /\ mode.width = 640
  /\ arg.desc.width = 1024
  /\ arg.desc.base # mode.base
  /\ base8 # Base8Of(arg.desc)

\* Byte k (0 the lowest) of the 32-bit value a.
ByteOf(a, k) ==
  IF k = 0 THEN a.lo % 256
  ELSE IF k = 1 THEN (a.lo \div 256) % 256
  ELSE IF k = 2 THEN a.hi % 256
  ELSE (a.hi \div 256) % 256

\* The base-address group as the bytes on the wire, for base address base
\* and fine-detail base b8.
GroupBytes(base, b8) ==
  <<175, 32, 255, 0,
    175, 32, 32, ByteOf(base, 2), 175, 32, 33, ByteOf(base, 1),
    175, 32, 34, ByteOf(base, 0),
    175, 32, 38, ByteOf(b8, 2), 175, 32, 39, ByteOf(b8, 1),
    175, 32, 40, ByteOf(b8, 0),
    175, 32, 255, 255, 175, 160>>

\* C24: the base-address group a mode change stages is exactly 34 bytes:
\* AF 20 FF 00, then AF 20 reg val for registers 0x20, 0x21, 0x22 with
\* bytes 2, 1, 0 of the desired base and for registers 0x26, 0x27, 0x28
\* with bytes 2, 1, 0 of base8, each cut to 8 bits, then AF 20 FF FF AF A0;
\* the group is flushed as one bulk write when every staging step
\* succeeds, and when a staging step returns dlo_err_buf_full (the buffer
\* holds fewer than 34 bytes) no flush of the group is performed.
C24_BaseGroupBytes ==
  [][(/\ op = "idle"
      /\ op' = "dlo_mode_change"
      /\ rc' \notin {"dlo_err_bad_mode", "DLO_INVALID_MODE"}) =>
       /\ rc' = "dlo_err_buf_full" <=> cap < 34
       /\ rc' = "dlo_err_buf_full" => OwnTransfers = <<>>
       /\ (cap >= 34 /\ arg'.fail # "set_base") => OwnTransfers # <<>>
       /\ OwnTransfers # <<>> =>
            /\ OwnTransfers[1] =
                 [chan |-> "bulk", blob |-> "buffer", key |-> NoKey,
                  bytes |-> GroupBytes(arg'.desc.base, base8')]
            /\ Len(OwnTransfers[1].bytes) = 34]_vars

\* A mode change has flushed the group of base 0x00ABCDEE and fine-detail
\* base 0x00C1282A.
C24_Witness ==
  /\ op = "dlo_mode_change"
  /\ \E i \in DOMAIN wire :
       /\ Len(wire[i].bytes) = 34
       /\ wire[i].bytes[8] = 171 /\ wire[i].bytes[12] = 205
       /\ wire[i].bytes[16] = 238 /\ wire[i].bytes[20] = 193
       /\ wire[i].bytes[24] = 40 /\ wire[i].bytes[28] = 42

\* What a device with the default list, created and never parsed, holds
\* once it has parsed the block ptr (the list and the native mode are the
\* same for every outcome of the stores past timing_id).
FirstParse(ptr) ==
  dlo_mode_parse_edid(DefaultModes, NativeCleared, EdidInit, ptr, "apart")

\* C25: building the list is idempotent: when a device holds what the
\* parse of a valid EDID block on the default list left (dev->supported and
\* dev->native) and parses the same block again, dev->supported and
\* dev->native after the second parse are what they were after the first.
\* (A first parse that stores past the end of dev->supported has no defined
\* result and is left out.)
C25_SecondParseSameResult ==
  [][(op = "idle" /\ op' = "dlo_mode_parse_edid" /\ rc' = "dlo_ok") =>
       LET first == FirstParse(arg'.ptr)
       IN  (~first.oob /\ supported = first.sup /\ native = first.native) =>
             /\ supported' = supported
             /\ native' = native
             /\ ~oob']_vars

\* The second parse in a row has returned, with the list and the native
\* mode (1280 x 1024) the first parse of the same block leaves on the
\* default list, a list of more than eleven entries.
C25_Witness ==
  /\ op = "dlo_mode_parse_edid"
  /\ rc = "dlo_ok"
  /\ nparse = 2
  /\ native.width = 1280
  /\ FirstSentinel(supported) > 11
  /\ LET first == FirstParse(arg.ptr)
     IN  supported = first.sup /\ native = first.native

\* C26: dlo_mode_lookup returns DLO_INVALID_MODE for every bpp other than
\* 24, 0 included, whatever dev->supported holds; for bpp 24 it returns
\* what the internal lookup returns: the entry of the first slot before the
\* first sentinel that matches, DLO_INVALID_MODE if there is none.
C26_PublicLookupWants24 ==
  op = "dlo_mode_lookup" =>
    IF arg.bpp # 24
    THEN res = DLO_INVALID_MODE
    ELSE /\ res = get_mode_number(supported, arg.width, arg.height,
                                  arg.refresh, 24)
         /\ LET hits == MatchingSlots(supported, arg)
            IN  IF hits = {}
                THEN res = DLO_INVALID_MODE
                ELSE \E i \in hits : /\ \A j \in hits : i <= j
                                     /\ res = supported[i + 1]

\* A public lookup of depth 0 has been refused although the list holds an
\* entry the internal lookup would return for the same arguments.
C26_Witness ==
  /\ op = "dlo_mode_lookup"
  /\ arg.bpp = 0
  /\ res = DLO_INVALID_MODE
  /\ MatchingSlots(supported, arg) # {}
  /\ get_mode_number(supported, arg.width, arg.height, arg.refresh, arg.bpp)
       # DLO_INVALID_MODE

\* C28: a mode change that completes every step returns
\* dlo_warn_dl160_mode if and only if the index of the selected mode is
\* below DLO_DL120_MODES, and dlo_ok otherwise; in both cases the device is
\* updated in the same way: dev->mode is the desired mode with the refresh
\* of the selected entry, dev->base8 the desired base plus
\* 2 * width * height, dev->low_blank the flag of the selected entry, and
\* the command buffer is empty.  A mode change that is not refused, has room
\* for the base-address group and meets no transport failure completes.
C28_WarnIffDl160Mode ==
  op = "dlo_mode_change" =>
    /\ (rc # "dlo_err_bad_mode" /\ cap >= 34 /\ arg.fail = "none") =>
         rc \in Success
    /\ rc \in Success =>
         /\ rc = "dlo_warn_dl160_mode" <=> res < DLO_DL120_MODES
         /\ rc = "dlo_ok" <=> res >= DLO_DL120_MODES
         /\ res < DLO_MODE_DATA_NUM
         /\ mode = [arg.desc EXCEPT !.refresh = ModeRefresh(res)]
         /\ base8 = U32Add(arg.desc.base,
                           U32OfNat(2 * arg.desc.width * arg.desc.height))
         /\ low_blank = ModeLowBlank(res)
         /\ buf = <<>>

\* A mode change to mode 4, the last index below DLO_DL120_MODES, has
\* returned the warning with the device updated.
C28_Witness ==
  /\ op = "dlo_mode_change"
  /\ rc = "dlo_warn_dl160_mode"
  /\ res = DLO_DL120_MODES - 1
  /\ mode.width = arg.desc.width
  /\ mode.refresh = ModeRefresh(res)

\* C27: dlo_mode_parse_edid is deterministic: a successful parse of a block
\* leaves the same parsed record as any other successful parse of that
\* block, whatever was parsed before, so the record is the one a parse of
\* the block into the untouched record leaves, and no field keeps a value
\* from an earlier parse.
C27_RecordDependsOnBlockAlone ==
  (op = "dlo_mode_parse_edid" /\ rc = "dlo_ok") =>
    \A lay \in StdOverruns : edid = ParseFields(EdidInit, arg.ptr, lay)

\* C27, the fields every successful parse stores: the colours, the
\* established and standard timings, the four is_detail flags and the
\* fields of the detailed timings are those of a parse into the untouched
\* record (used to locate what fails: the fields of a monitor descriptor).
C27_StoredFieldsDependOnBlock ==
  (op = "dlo_mode_parse_edid" /\ rc = "dlo_ok") =>
    LET first == ParseFields(EdidInit, arg.ptr, "apart")
    IN  /\ edid.colours = first.colours
        /\ edid.est_timings = first.est_timings
        /\ edid.std_timings = first.std_timings
        /\ \A i \in 1..4 :
             /\ edid.timings[i].is_detail = first.timings[i].is_detail
             /\ edid.timings[i].is_detail => edid.timings[i] = first.timings[i]

\* The low two bits of a chromaticity value: bit pair p (3 the highest) of
\* the byte at offset off of the block.
LowBits(ptr, off, p) ==
  IF p = 3 THEN RD_B(ptr, off) \div 64
  ELSE IF p = 2 THEN (RD_B(ptr, off) \div 16) % 4
  ELSE IF p = 1 THEN (RD_B(ptr, off) \div 4) % 4
  ELSE RD_B(ptr, off) % 4

\* C29: after a successful parse each of the eight chromaticity values is
\* the 2-bit low part plus four times the high byte: the high bytes are
\* the bytes 0x1B .. 0x22 of the block, in the order red x, red y, green x,
\* green y, blue x, blue y, white x, white y; the low parts are the bit
\* pairs of byte 0x19 (red x, red y, green x, green y, from the top) and of
\* byte 0x1A (blue x, blue y, white x, white y); every value is below 1024.
C29_ChromaticityValues ==
  (op = "dlo_mode_parse_edid" /\ rc = "dlo_ok") =>
    LET ptr == arg.ptr
        c   == edid.colours
    IN  /\ c.red_x = LowBits(ptr, 25, 3) + (4 * RD_B(ptr, 27))
        /\ c.red_y = LowBits(ptr, 25, 2) + (4 * RD_B(ptr, 28))
        /\ c.grn_x = LowBits(ptr, 25, 1) + (4 * RD_B(ptr, 29))
        /\ c.grn_y = LowBits(ptr, 25, 0) + (4 * RD_B(ptr, 30))
        /\ c.blu_x = LowBits(ptr, 26, 3) + (4 * RD_B(ptr, 31))
        /\ c.blu_y = LowBits(ptr, 26, 2) + (4 * RD_B(ptr, 32))
        /\ c.wht_x = LowBits(ptr, 26, 1) + (4 * RD_B(ptr, 33))
        /\ c.wht_y = LowBits(ptr, 26, 0) + (4 * RD_B(ptr, 34))
        /\ \A v \in {c.red_x, c.red_y, c.grn_x, c.grn_y,
                     c.blu_x, c.blu_y, c.wht_x, c.wht_y} : v < 1024

\* C30: after a successful parse the standard-timing field holds eight
\* 16-bit words, word k being the little-endian 16-bit value at offset
\* 0x26 + 2k of the block, and the loop that fills it stores to indices
\* 0 .. 7 of the eight-element array only.
C30_StandardTimingWords ==
  (op = "dlo_mode_parse_edid" /\ rc = "dlo_ok") =>
    /\ DOMAIN edid.std_timings.timing_id = 1..8
    /\ \A k \in 0..7 :
         edid.std_timings.timing_id[k + 1] =
           RD_B(arg.ptr, 38 + (2 * k)) + (256 * RD_B(arg.ptr, 39 + (2 * k)))
    /\ StdLoopIndices \subseteq 0..7

====
